---- MODULE Spec2Model ----
(***************************************************************************)
(* Josephson Visualizer (src/src/main.rs): the MyApp state and one frame   *)
(* of MyApp::update, split into the phases the code runs in order:         *)
(*   list   - layer list panel (Hide/Show and X buttons)                   *)
(*   menu   - File menu (Open, Clear)                                      *)
(*   mode   - Flux / Field radio buttons                                   *)
(*   pick   - ingestion of picked_path                                     *)
(*   render - the plot                                                     *)
(*   drop   - ingestion of dropped_files, one loop iteration per step      *)
(*            then dropped_files.clear() and collection of new drops       *)
(* A panic (index out of bounds, unwrap on Err) ends the run: panicked     *)
(* becomes TRUE with the fields as they were when the panic was raised.    *)
(*                                                                         *)
(* Text is modelled as a sequence of tokens; the token NL stands for the   *)
(* character '\n', and every other token for a maximal run of              *)
(* non-whitespace characters.  A token is [txt, commas]: its text without  *)
(* trailing commas and the number of trailing commas.  f64 values are      *)
(* integers counting hundredths.  Indices are 0-based as in the code.      *)
(***************************************************************************)
EXTENDS Integers, Sequences, FiniteSets, TLC

VARIABLES dropped_files, picked_path, points, solutions_count, is_visible,
          line_mode, should_reset_plot, layer_names,
          pc, panicked, file_idx, click, outcome, plot

vars == <<dropped_files, picked_path, points, solutions_count, is_visible,
          line_mode, should_reset_plot, layer_names,
          pc, panicked, file_idx, click, outcome, plot>>

store == <<points, solutions_count, is_visible, layer_names>>

(* ------------------------------ bounds --------------------------------- *)

MaxLayers == 3

MaxBatch == 2

\* Files are dropped only while is_visible is at most this long.
MaxFlags == 2

(* ----------------------------- constants ------------------------------- *)

PaletteSize == 11

HeIndex == 17

GammaIndex == 20

(* ------------------------------- text ---------------------------------- *)

Tok(s) == [txt |-> s, commas |-> 0]

TokC(s) == [txt |-> s, commas |-> 1]

NL == [txt |-> "\n", commas |-> 0]

\* str::trim_end_matches(',')
TrimComma(t) == t.txt

\* The decimal strings used in the test files and their f64 values (x100).
F64Table ==
    [s \in {"0.0", "0", "1.0", "1", "1.1", "0.05", "2.0", "3.5", "0.1"} |->
        CASE s = "0.0"  -> 0
          [] s = "0"    -> 0
          [] s = "1.0"  -> 100
          [] s = "1"    -> 100
          [] s = "1.1"  -> 110
          [] s = "0.05" -> 5
          [] s = "2.0"  -> 200
          [] s = "3.5"  -> 350
          [] s = "0.1"  -> 10]

\* str::parse::<f64>().is_ok()
IsF64(t) == t.commas = 0 /\ t.txt \in DOMAIN F64Table

\* str::parse::<f64>().unwrap()
ParseF64(t) == F64Table[t.txt]

\* Index of the first NL of s, or 0.
FirstNL(s) ==
    IF \E k \in 1..Len(s) : s[k] = NL
    THEN CHOOSE k \in 1..Len(s) : s[k] = NL /\ \A j \in 1..(k - 1) : s[j] # NL
    ELSE 0

\* str::split('\n') followed by split_whitespace on each piece: the lines,
\* each a sequence of tokens.  Always at least one line.
RECURSIVE SplitLines(_)
SplitLines(s) ==
    IF FirstNL(s) = 0
    THEN <<s>>
    ELSE <<SubSeq(s, 1, FirstNL(s) - 1)>>
            \o SplitLines(SubSeq(s, FirstNL(s) + 1, Len(s)))

(* ---------------------------- file system ------------------------------ *)

\* A path is its file name: a stem followed by `dat` copies of ".DAT".
Path(stem, dat) == [stem |-> stem, dat |-> dat]

Fill(n) == [i \in 1..n |-> Tok("p")]

\* A parameter line of 21 tokens whose first three tokens are decimal.
NumParam(he, gamma) ==
    <<Tok("0.0"), Tok("1.0"), Tok("0.0")>> \o Fill(14) \o <<he>> \o Fill(2) \o <<gamma>>

\* A parameter line of 21 tokens, none of tokens 0..2 decimal (spec.md 8).
NameParam(he, gamma) == Fill(17) \o <<he>> \o Fill(2) \o <<gamma>>

TextA ==
    <<Tok("HDR"), NL>> \o NumParam(TokC("3.5"), TokC("0.1"))
        \o <<NL, Tok("1.0"), Tok("1.1"), Tok("0.05"), NL>>

TextB ==
    <<Tok("HDR"), NL>> \o NumParam(Tok("2.0"), TokC("0.1"))
        \o <<NL, Tok("2.0"), Tok("1"), Tok("0"), NL>>

TextNamed ==
    <<Tok("HDR"), NL>> \o NameParam(TokC("3.5"), TokC("0.1"))
        \o <<NL, Tok("0.0"), Tok("1.0"), Tok("0.0"), NL,
             Tok("1.0"), Tok("1.1"), Tok("0.05"), NL>>

TextShort ==
    <<Tok("HDR"), NL>> \o SubSeq(NumParam(TokC("3.5"), TokC("0.1")), 1, 20)
        \o <<NL, Tok("1.0"), Tok("1.1"), Tok("0.05"), NL>>

TextTwo ==
    <<Tok("HDR"), NL>> \o NumParam(TokC("3.5"), TokC("0.1"))
        \o <<NL, Tok("1.0"), Tok("1.1"), NL>>

TextNaN ==
    <<Tok("HDR"), NL>> \o NumParam(TokC("3.5"), TokC("0.1"))
        \o <<NL, Tok("1.0"), Tok("abc"), Tok("0.05"), NL>>

Err == [ok |-> FALSE, text |-> <<>>]

Ok(text) == [ok |-> TRUE, text |-> text]

\* fs::read_to_string(path): the results the file system can give.
ReadToString(path) ==
    CASE path.stem = "A"      -> {Ok(TextA)}
      [] path.stem = "B"      -> {Ok(TextB)}
      [] path.stem = "named"  -> {Ok(TextNamed)}
      [] path.stem = "short"  -> {Ok(TextShort)}
      [] path.stem = "two"    -> {Ok(TextTwo)}
      [] path.stem = "nan"    -> {Ok(TextNaN)}
      [] path.stem = "empty"  -> {Ok(<<>>)}
      [] path.stem = "locked" -> {Err, Ok(TextB)}
      [] OTHER                -> {Err}

Paths ==
    {Path("A", 1), Path("B", 2), Path("named", 1), Path("short", 1),
     Path("two", 1), Path("nan", 1), Path("empty", 0), Path("locked", 1),
     Path("missing", 1)}

\* Option<PathBuf>
None == <<>>

Some(p) == <<p>>

\* egui::DroppedFile
DroppedFile(optpath) == [path |-> optpath]

\* The files the user drops.
DropPaths == {Path("A", 1), Path("locked", 1), Path("short", 1), Path("two", 1)}

DroppedFiles == {DroppedFile(Some(p)) : p \in DropPaths} \cup {DroppedFile(None)}

Batches(n) == UNION {[1..k -> DroppedFiles] : k \in 0..n}

(* ------------------------------ parsing -------------------------------- *)

\* let mut contents = sol.split('\n').collect(); contents.remove(0);
Contents(text) == Tail(SplitLines(text))

\* contents[0], ...[17] or ...[20] is out of bounds: the panic happens
\* before anything is pushed.
HeaderPanics(contents) ==
    \/ Len(contents) = 0
    \/ Len(contents[1]) < HeIndex + 1
    \/ Len(contents[1]) < GammaIndex + 1

He(contents) == TrimComma(contents[1][HeIndex + 1])

Gamma(contents) == TrimComma(contents[1][GammaIndex + 1])

\* The loop body completes on this line: line[0], line[1], line[2] exist
\* and the three parse::<f64>().unwrap() succeed.
LineOk(line) ==
    /\ Len(line) >= 3
    /\ IsF64(line[1]) /\ IsF64(line[2]) /\ IsF64(line[3])

Sample(line) == <<ParseF64(line[1]), ParseF64(line[2]), ParseF64(line[3])>>

\* for x in 0..contents.len() - 1: the number of iterations.
LoopLen(contents) == Len(contents) - 1

\* The number of iterations completed before the first panic (all of them
\* if none panics).
Parsed(contents) ==
    CHOOSE k \in 0..LoopLen(contents) :
        /\ \A j \in 1..k : LineOk(contents[j])
        /\ k < LoopLen(contents) => ~LineOk(contents[k + 1])

Samples(contents) == [j \in 1..Parsed(contents) |-> Sample(contents[j])]

\* path.file_name() with trim_end_matches(".DAT"), then format!.
LayerName(path, he, gamma) == path.stem \o " he=" \o he \o " gamma=" \o gamma

Trues(n) == [i \in 1..n |-> TRUE]

\* Mutation of RemoveAt: Vec::swap_remove(sol) in place of Vec::remove(sol);
\* the last element takes the place of the removed one.
RemoveAt_Swap(s, sol) ==
    [k \in 1..(Len(s) - 1) |-> IF k = sol + 1 THEN s[Len(s)] ELSE s[k]]

\* Vec::remove(sol)
RemoveAt(s, sol) == SubSeq(s, 1, sol) \o SubSeq(s, sol + 2, Len(s))

(* ----------------------------- rendering ------------------------------- *)

\* Mutation of ProjectReset: the Derivative arm maps to [i.0, i.1] like the
\* Normal arm.
ProjectReset_ValueOnly(samples, mode) ==
    [i \in DOMAIN samples |-> <<samples[i][1], samples[i][2]>>]

\* reset branch: self.points[sol].iter().map(...)
ProjectReset(samples, mode) ==
    [i \in DOMAIN samples |->
        IF mode = "Normal" THEN <<samples[i][1], samples[i][2]>>
                           ELSE <<samples[i][1], samples[i][3]>>]

\* normal branch: self.points[sol].iter().map(...)
ProjectNormal(samples, mode) ==
    [i \in DOMAIN samples |->
        IF mode = "Normal" THEN <<samples[i][1], samples[i][2]>>
                           ELSE <<samples[i][1], samples[i][3]>>]

ColorIndex(sol) == sol % PaletteSize

\* The layers the render loop draws, in order.
Drawn ==
    SelectSeq([i \in 1..solutions_count |-> i - 1], LAMBDA sol : is_visible[sol + 1])

\* An indexed access of the render loop is out of bounds.
RenderPanics ==
    \E sol \in 0..(solutions_count - 1) :
        \/ sol >= Len(is_visible)
        \/ /\ \A s \in 0..sol : s < Len(is_visible)
           /\ is_visible[sol + 1]
           /\ (sol >= Len(points) \/ sol >= Len(layer_names))

PlotLines(reset) ==
    [k \in 1..Len(Drawn) |->
        [sol   |-> Drawn[k],
         name  |-> layer_names[Drawn[k] + 1],
         color |-> ColorIndex(Drawn[k]),
         pts   |-> IF reset THEN ProjectReset(points[Drawn[k] + 1], line_mode)
                            ELSE ProjectNormal(points[Drawn[k] + 1], line_mode)]]

(* ------------------------------- state --------------------------------- *)

NoClick == [op |-> "None", arg |-> 0]

\* #[derive(Default)] struct MyApp; nothing drawn yet.
Init ==
    /\ dropped_files = <<>>
    /\ picked_path = None
    /\ points = <<>>
    /\ solutions_count = 0
    /\ is_visible = <<>>
    /\ line_mode = "Normal"
    /\ should_reset_plot = FALSE
    /\ layer_names = <<>>
    /\ pc = "list"
    /\ panicked = FALSE
    /\ file_idx = 1
    /\ click = NoClick
    /\ outcome = "None"
    /\ plot = [reset |-> FALSE, mode |-> "Normal", lines |-> <<>>]

\* The phase ends normally and the frame goes on with phase l.
Goto(l) == pc' = l /\ panicked' = FALSE

\* The thread panics in the current phase.
Panic == pc' = pc /\ panicked' = TRUE

(* ---------------------------- layer list ------------------------------- *)

\* Rows 0..upto of the layer list read layer_names[sol] and is_visible[sol].
ListPanics(upto) ==
    \E sol \in 0..upto : sol >= Len(layer_names) \/ sol >= Len(is_visible)

\* Mutation of ToggleVisibility: the button assigns false instead of
\* negating the flag.
ToggleVisibility_Hides(sol) ==
    /\ pc = "list"
    /\ ~panicked
    /\ click = NoClick
    /\ sol \in 0..(solutions_count - 1)
    /\ click' = [op |-> "Toggle", arg |-> sol]
    /\ IF ListPanics(solutions_count - 1)
       THEN /\ Panic
            /\ is_visible' =
                 IF ListPanics(sol) THEN is_visible
                 ELSE [is_visible EXCEPT ![sol + 1] = FALSE]
       ELSE /\ Goto("menu")
            /\ is_visible' = [is_visible EXCEPT ![sol + 1] = FALSE]
    /\ UNCHANGED <<dropped_files, picked_path, points, solutions_count,
                   line_mode, should_reset_plot, layer_names, file_idx,
                   outcome, plot>>

\* Hide/Show button of row sol.
ToggleVisibility(sol) ==
    /\ pc = "list"
    /\ ~panicked
    /\ click = NoClick
    /\ sol \in 0..(solutions_count - 1)
    /\ click' = [op |-> "Toggle", arg |-> sol]
    /\ IF ListPanics(solutions_count - 1)
       THEN /\ Panic
            /\ is_visible' =
                 IF ListPanics(sol) THEN is_visible
                 ELSE [is_visible EXCEPT ![sol + 1] = ~@]
       ELSE /\ Goto("menu")
            /\ is_visible' = [is_visible EXCEPT ![sol + 1] = ~@]
    /\ UNCHANGED <<dropped_files, picked_path, points, solutions_count,
                   line_mode, should_reset_plot, layer_names, file_idx,
                   outcome, plot>>

\* X button of row sol.
RemoveLayer(sol) ==
    /\ pc = "list"
    /\ ~panicked
    /\ click = NoClick
    /\ sol \in 0..(solutions_count - 1)
    /\ click' = [op |-> "Remove", arg |-> sol]
    /\ IF ListPanics(sol) \/ sol >= Len(points)
       THEN /\ Panic
            /\ UNCHANGED <<points, is_visible, layer_names, solutions_count>>
       ELSE /\ Goto("menu")
            /\ points' = RemoveAt(points, sol)
            /\ is_visible' = RemoveAt(is_visible, sol)
            /\ layer_names' = RemoveAt(layer_names, sol)
            /\ solutions_count' = solutions_count - 1
    /\ UNCHANGED <<dropped_files, picked_path, line_mode, should_reset_plot,
                   file_idx, outcome, plot>>

(* ------------------------------- menu ---------------------------------- *)

\* File > Open; choice is what rfd::FileDialog::pick_file() returns.
Open(choice) ==
    /\ pc = "menu"
    /\ ~panicked
    /\ click = NoClick
    /\ choice # None => solutions_count + Len(dropped_files) < MaxLayers
    /\ click' = [op |-> "Open", arg |-> choice]
    /\ picked_path' = IF choice # None THEN choice ELSE picked_path
    /\ Goto("mode")
    /\ UNCHANGED <<dropped_files, points, solutions_count, is_visible,
                   line_mode, should_reset_plot, layer_names, file_idx,
                   outcome, plot>>

\* Mutation of Clear: self.solutions_count = 0 is missing.
Clear_KeepsCount ==
    /\ pc = "menu"
    /\ ~panicked
    /\ click = NoClick
    /\ click' = [op |-> "Clear", arg |-> 0]
    /\ points' = <<>>
    /\ is_visible' = <<>>
    /\ layer_names' = <<>>
    /\ Goto("mode")
    /\ UNCHANGED <<dropped_files, picked_path, solutions_count, line_mode,
                   should_reset_plot, file_idx, outcome, plot>>

\* Mutation of Clear: is_visible.clear() is missing.
Clear_KeepsFlags ==
    /\ pc = "menu"
    /\ ~panicked
    /\ click = NoClick
    /\ click' = [op |-> "Clear", arg |-> 0]
    /\ points' = <<>>
    /\ solutions_count' = 0
    /\ layer_names' = <<>>
    /\ Goto("mode")
    /\ UNCHANGED <<dropped_files, picked_path, is_visible, line_mode,
                   should_reset_plot, file_idx, outcome, plot>>

\* File > Clear
Clear ==
    /\ pc = "menu"
    /\ ~panicked
    /\ click = NoClick
    /\ click' = [op |-> "Clear", arg |-> 0]
    /\ points' = <<>>
    /\ solutions_count' = 0
    /\ is_visible' = <<>>
    /\ layer_names' = <<>>
    /\ Goto("mode")
    /\ UNCHANGED <<dropped_files, picked_path, line_mode, should_reset_plot,
                   file_idx, outcome, plot>>

(* ------------------------------- mode ---------------------------------- *)

\* Mutation of SetMode: only the Field button sets should_reset_plot.
SetMode_FieldOnly(m) ==
    /\ pc = "mode"
    /\ ~panicked
    /\ click = NoClick
    /\ click' = [op |-> "SetMode", arg |-> m]
    /\ line_mode' = m
    /\ should_reset_plot' = (should_reset_plot \/ m = "Derivative")
    /\ Goto("pick")
    /\ UNCHANGED <<dropped_files, picked_path, points, solutions_count,
                   is_visible, layer_names, file_idx, outcome, plot>>

\* A click on the radio button of mode m: radio_value assigns line_mode,
\* and the caller's .clicked() branch sets should_reset_plot.
SetMode(m) ==
    /\ pc = "mode"
    /\ ~panicked
    /\ click = NoClick
    /\ click' = [op |-> "SetMode", arg |-> m]
    /\ line_mode' = m
    /\ should_reset_plot' = TRUE
    /\ Goto("pick")
    /\ UNCHANGED <<dropped_files, picked_path, points, solutions_count,
                   is_visible, layer_names, file_idx, outcome, plot>>

\* A panel in which no widget is clicked this frame.
Idle ==
    /\ pc \in {"list", "menu", "mode"}
    /\ ~panicked
    /\ IF pc = "list"
       THEN (IF ListPanics(solutions_count - 1) THEN Panic ELSE Goto("menu"))
       ELSE IF pc = "menu" THEN Goto("mode") ELSE Goto("pick")
    /\ UNCHANGED <<dropped_files, picked_path, points, solutions_count,
                   is_visible, line_mode, should_reset_plot, layer_names,
                   file_idx, click, outcome, plot>>

(* ----------------------------- ingestion ------------------------------ *)

\* Mutation of PushSamples: the loop pushes onto self.points[0].
PushSamples_First(contents) ==
    [Append(points, <<>>) EXCEPT ![1] = @ \o Samples(contents)]

\* self.points.push(Vec::new()) followed by the pushes of the loop onto
\* self.points[self.solutions_count].
PushSamples(contents) ==
    [Append(points, <<>>) EXCEPT ![solutions_count + 1] = @ \o Samples(contents)]

\* self.points[self.solutions_count] is out of bounds in the first iteration.
TargetPanics(contents) ==
    LoopLen(contents) > 0 /\ solutions_count >= Len(points) + 1

\* if let Some(picked_path) = &self.picked_path { ... }
IngestPicked ==
    /\ pc = "pick"
    /\ ~panicked
    /\ IF picked_path = None
       THEN /\ Goto("render")
            /\ UNCHANGED <<picked_path, points, solutions_count, is_visible,
                           layer_names, outcome>>
       ELSE \E sol \in ReadToString(picked_path[1]) :
              IF ~sol.ok
              THEN /\ outcome' = "Unreadable"
                   /\ Goto("render")
                   /\ UNCHANGED <<picked_path, points, solutions_count,
                                  is_visible, layer_names>>
              ELSE LET contents == Contents(sol.text) IN
                   IF HeaderPanics(contents)
                   THEN /\ outcome' = "Panic"
                        /\ Panic
                        /\ UNCHANGED <<picked_path, points, solutions_count,
                                       is_visible, layer_names>>
                   ELSE IF TargetPanics(contents)
                   THEN /\ outcome' = "Panic"
                        /\ Panic
                        /\ points' = Append(points, <<>>)
                        /\ UNCHANGED <<picked_path, solutions_count,
                                       is_visible, layer_names>>
                   ELSE IF Parsed(contents) < LoopLen(contents)
                   THEN /\ outcome' = "Panic"
                        /\ Panic
                        /\ points' = PushSamples(contents)
                        /\ UNCHANGED <<picked_path, solutions_count,
                                       is_visible, layer_names>>
                   ELSE /\ outcome' = "Ok"
                        /\ Goto("render")
                        /\ points' = PushSamples(contents)
                        /\ layer_names' =
                             Append(layer_names,
                                    LayerName(picked_path[1], He(contents),
                                              Gamma(contents)))
                        /\ is_visible' = Append(is_visible, TRUE)
                        /\ picked_path' = None
                        /\ solutions_count' = solutions_count + 1
    /\ UNCHANGED <<dropped_files, line_mode, should_reset_plot, file_idx,
                   click, plot>>

\* Mutation of IngestDropped: self.solutions_count += 1 sits inside the
\* parse loop, next to self.is_visible.push(true).
IngestDropped_CountsPerSample ==
    /\ pc = "drop"
    /\ ~panicked
    /\ file_idx <= Len(dropped_files)
    /\ LET file == dropped_files[file_idx] IN
       IF file.path = None
       THEN /\ outcome' = "NoPath"
            /\ file_idx' = file_idx + 1
            /\ Goto("drop")
            /\ UNCHANGED <<picked_path, points, solutions_count,
                           is_visible, layer_names>>
       ELSE \E sol \in ReadToString(file.path[1]) :
              IF ~sol.ok
              THEN /\ outcome' = "Unreadable"
                   /\ file_idx' = file_idx + 1
                   /\ Goto("drop")
                   /\ UNCHANGED <<picked_path, points, solutions_count,
                                  is_visible, layer_names>>
              ELSE LET contents == Contents(sol.text) IN
                   IF HeaderPanics(contents)
                   THEN /\ outcome' = "Panic"
                        /\ Panic
                        /\ UNCHANGED <<file_idx, picked_path, points,
                                       solutions_count, is_visible, layer_names>>
                   ELSE IF TargetPanics(contents)
                   THEN /\ outcome' = "Panic"
                        /\ Panic
                        /\ points' = Append(points, <<>>)
                        /\ UNCHANGED <<file_idx, picked_path, solutions_count,
                                       is_visible, layer_names>>
                   ELSE IF Parsed(contents) < LoopLen(contents)
                   THEN /\ outcome' = "Panic"
                        /\ Panic
                        /\ points' = PushSamples(contents)
                        /\ is_visible' = is_visible \o Trues(Parsed(contents))
                        /\ UNCHANGED <<file_idx, picked_path, solutions_count,
                                       layer_names>>
                   ELSE /\ outcome' = "Ok"
                        /\ file_idx' = file_idx + 1
                        /\ points' = PushSamples(contents)
                        /\ layer_names' =
                             Append(layer_names,
                                    LayerName(file.path[1], He(contents),
                                              Gamma(contents)))
                        /\ is_visible' =
                             Append(is_visible \o Trues(Parsed(contents)), TRUE)
                        /\ picked_path' = None
                        /\ solutions_count' = solutions_count + Parsed(contents)
                        /\ Goto("drop")
    /\ UNCHANGED <<dropped_files, line_mode, should_reset_plot, click, plot>>

\* One iteration of: for file in &self.dropped_files { ... }
IngestDropped ==
    /\ pc = "drop"
    /\ ~panicked
    /\ file_idx <= Len(dropped_files)
    /\ LET file == dropped_files[file_idx] IN
       IF file.path = None
       THEN /\ outcome' = "NoPath"
            /\ file_idx' = file_idx + 1
            /\ Goto("drop")
            /\ UNCHANGED <<picked_path, points, solutions_count,
                           is_visible, layer_names>>
       ELSE \E sol \in ReadToString(file.path[1]) :
              IF ~sol.ok
              THEN /\ outcome' = "Unreadable"
                   /\ file_idx' = file_idx + 1
                   /\ Goto("drop")
                   /\ UNCHANGED <<picked_path, points, solutions_count,
                                  is_visible, layer_names>>
              ELSE LET contents == Contents(sol.text) IN
                   IF HeaderPanics(contents)
                   THEN /\ outcome' = "Panic"
                        /\ Panic
                        /\ UNCHANGED <<file_idx, picked_path, points,
                                       solutions_count, is_visible, layer_names>>
                   ELSE IF TargetPanics(contents)
                   THEN /\ outcome' = "Panic"
                        /\ Panic
                        /\ points' = Append(points, <<>>)
                        /\ UNCHANGED <<file_idx, picked_path, solutions_count,
                                       is_visible, layer_names>>
                   ELSE IF Parsed(contents) < LoopLen(contents)
                   THEN /\ outcome' = "Panic"
                        /\ Panic
                        /\ points' = PushSamples(contents)
                        /\ is_visible' = is_visible \o Trues(Parsed(contents))
                        /\ UNCHANGED <<file_idx, picked_path, solutions_count,
                                       layer_names>>
                   ELSE /\ outcome' = "Ok"
                        /\ file_idx' = file_idx + 1
                        /\ points' = PushSamples(contents)
                        /\ layer_names' =
                             Append(layer_names,
                                    LayerName(file.path[1], He(contents),
                                              Gamma(contents)))
                        /\ is_visible' =
                             Append(is_visible \o Trues(Parsed(contents)), TRUE)
                        /\ picked_path' = None
                        /\ solutions_count' = solutions_count + 1
                        /\ Goto("drop")
    /\ UNCHANGED <<dropped_files, line_mode, should_reset_plot, click, plot>>

(* ------------------------------- render -------------------------------- *)

\* Mutation of Render: self.should_reset_plot = false is missing.
Render_KeepsFlag ==
    /\ pc = "render"
    /\ ~panicked
    /\ IF RenderPanics
       THEN /\ Panic
            /\ UNCHANGED plot
       ELSE /\ Goto("drop")
            /\ plot' = [reset |-> should_reset_plot, mode |-> line_mode,
                        lines |-> PlotLines(should_reset_plot)]
    /\ UNCHANGED <<dropped_files, picked_path, points, solutions_count,
                   is_visible, line_mode, should_reset_plot, layer_names,
                   file_idx, click, outcome>>

\* if self.should_reset_plot { plot_space.reset().show(..); flag = false }
\* else { plot_space.show(..) }
Render ==
    /\ pc = "render"
    /\ ~panicked
    /\ IF RenderPanics
       THEN /\ Panic
            /\ UNCHANGED <<should_reset_plot, plot>>
       ELSE /\ Goto("drop")
            /\ plot' = [reset |-> should_reset_plot, mode |-> line_mode,
                        lines |-> PlotLines(should_reset_plot)]
            /\ should_reset_plot' = FALSE
    /\ UNCHANGED <<dropped_files, picked_path, points, solutions_count,
                   is_visible, line_mode, layer_names, file_idx, click, outcome>>

(* ---------------------------- end of frame ----------------------------- *)

\* self.dropped_files.clear(); then the files dropped on the window during
\* this frame (i.raw.dropped_files) replace it when there are any.
EndFrame(dropped) ==
    /\ pc = "drop"
    /\ ~panicked
    /\ file_idx > Len(dropped_files)
    /\ solutions_count + Len(picked_path) + Len(dropped) <= MaxLayers
    /\ dropped # <<>> => Len(is_visible) <= MaxFlags
    /\ dropped_files' = dropped
    /\ Goto("list")
    /\ file_idx' = 1
    /\ click' = NoClick
    /\ outcome' = "None"
    /\ UNCHANGED <<picked_path, points, solutions_count, is_visible,
                   line_mode, should_reset_plot, layer_names, plot>>

Next ==
    \/ \E sol \in 0..(MaxLayers + 1) : ToggleVisibility(sol)
    \/ \E sol \in 0..(MaxLayers + 1) : RemoveLayer(sol)
    \/ \E choice \in {None} \cup {Some(p) : p \in Paths} : Open(choice)
    \/ Clear
    \/ \E m \in {"Normal", "Derivative"} : SetMode(m)
    \/ Idle
    \/ IngestPicked
    \/ Render
    \/ IngestDropped
    \/ \E dropped \in Batches(MaxBatch) : EndFrame(dropped)

Spec == Init /\ [][Next]_vars

(* ----------------------- vocabulary of the claims ---------------------- *)

\* The step is an ingestion attempt through the file-picker path.
PickAttempt == pc = "pick" /\ ~panicked /\ picked_path # None

\* The step is an ingestion attempt of one dropped file that has a path.
DropAttempt ==
    /\ pc = "drop" /\ ~panicked
    /\ file_idx <= Len(dropped_files)
    /\ dropped_files[file_idx].path # None

Attempt == PickAttempt \/ DropAttempt

AttemptPath ==
    IF pc = "pick" THEN picked_path[1] ELSE dropped_files[file_idx].path[1]

\* The text of the file at path p when it can be read.
TextOf(p) == (CHOOSE sol \in ReadToString(p) : sol.ok).text

\* The store the picked-path ingestion leaves when it succeeds on the file
\* at path.
PickedStore(path) ==
    LET contents == Contents(TextOf(path)) IN
    <<PushSamples(contents),
      solutions_count + 1,
      Append(is_visible, TRUE),
      Append(layer_names, LayerName(path, He(contents), Gamma(contents)))>>

\* spec.md 4.1 step 4: the parameter line (second line) has fewer than 21
\* tokens.
MalformedHeader(text) ==
    \/ Len(SplitLines(text)) < 2
    \/ Len(SplitLines(text)[2]) < 21

\* spec.md 4.1 step 3: the lines after the parameter line, without the
\* trailing empty element.
DataLines(text) ==
    LET lines == SplitLines(text)
        last  == IF lines[Len(lines)] = <<>> THEN Len(lines) - 1 ELSE Len(lines)
    IN  SubSeq(lines, 3, last)

\* spec.md 4.1 step 4: a data line has fewer than 3 tokens or a token that
\* is not a float.
MalformedSample(text) ==
    /\ ~MalformedHeader(text)
    /\ \E k \in 1..Len(DataLines(text)) : ~LineOk(DataLines(text)[k])

WellFormed(text) == ~MalformedHeader(text) /\ ~MalformedSample(text)

\* The ingestion attempted in this step failed in one of the ways of C2.
AttemptFailed ==
    /\ Attempt
    /\ \/ outcome' = "Unreadable"
       \/ /\ outcome' # "Unreadable"
          /\ (MalformedHeader(TextOf(AttemptPath)) \/ MalformedSample(TextOf(AttemptPath)))

\* Layer sol of the store as the shell reads it.
Layer(sol) == <<points[sol + 1], layer_names[sol + 1], is_visible[sol + 1]>>

(* ------------------------------ claims --------------------------------- *)

\* C1: at the end of every frame the three parallel structures have the same
\* length, and that length is solutions_count.
C1_ParallelLengths ==
    (pc = "list" /\ ~panicked) =>
        /\ Len(points) = Len(is_visible)
        /\ Len(is_visible) = Len(layer_names)
        /\ Len(points) = solutions_count

\* C2: an ingestion that fails (unreadable file, parameter line under 21
\* tokens, malformed data line) leaves points, is_visible, layer_names and
\* solutions_count as they were, and the application keeps running on them.
C2_FailedIngestionKeepsStore ==
    [][AttemptFailed => (store' = store /\ ~panicked')]_vars

\* C3: a file with a short parameter line ends in the outcome
\* MalformedHeader, one with a bad data line in MalformedSample, and the
\* application does not crash.
C3_ParseErrorsReturned ==
    [][(Attempt /\ outcome' # "Unreadable") =>
         /\ MalformedHeader(TextOf(AttemptPath)) =>
              (outcome' = "MalformedHeader" /\ ~panicked')
         /\ MalformedSample(TextOf(AttemptPath)) =>
              (outcome' = "MalformedSample" /\ ~panicked')]_vars

\* A dropped file that always reads and is well formed.
ValidDropped(file) ==
    /\ file.path # None
    /\ \A sol \in ReadToString(file.path[1]) : sol.ok /\ WellFormed(sol.text)

\* C4: every valid file of a dropped batch gets a layer, whatever happens
\* to the other files of the batch: its own iteration adds a layer, and the
\* loop never stops while a valid file is still waiting.
C4_BatchIndependent ==
    /\ [][(DropAttempt /\ ValidDropped(dropped_files[file_idx]))
            => solutions_count' = solutions_count + 1]_vars
    /\ []((pc = "drop" /\ panicked) =>
            \A k \in (file_idx + 1)..Len(dropped_files) :
                ~ValidDropped(dropped_files[k]))

\* C5: a click on the radio button of the mode that is already active leaves
\* should_reset_plot unchanged.
C5_SameModeNoReset ==
    [][(pc = "mode" /\ click.op = "None" /\ click'.op = "SetMode"
          /\ line_mode' = line_mode)
         => should_reset_plot' = should_reset_plot]_vars

\* A render pass that completes.
RenderPass == pc = "render" /\ ~panicked /\ pc' = "drop"

\* C6: a set-mode click that changes line_mode sets should_reset_plot, the
\* flag is still set when the render pass that first draws the new mode
\* starts, and that pass takes the bounds-reset branch.
C6_ModeChangeResets ==
    [][/\ (pc = "mode" /\ line_mode' # line_mode) => should_reset_plot'
       /\ (RenderPass /\ line_mode # plot.mode) =>
              (should_reset_plot /\ plot'.reset /\ plot'.mode = line_mode)]_vars

\* A render pass has drawn a newly selected mode with a bounds reset.
C6_Witness ==
    /\ pc = "drop"
    /\ plot.reset /\ plot.mode = "Derivative"
    /\ click = [op |-> "SetMode", arg |-> "Derivative"]
    /\ Len(plot.lines) > 0

\* C7: every render pass leaves should_reset_plot false, and a render pass
\* resets the bounds only in a frame with a set-mode click, so no two render
\* passes reset for one click.
C7_ResetOneShot ==
    [][RenderPass =>
         /\ should_reset_plot' = FALSE
         /\ plot'.reset => click.op = "SetMode"]_vars

\* A render pass in Derivative mode, in a frame without a set-mode click,
\* that did not reset: the reset of the frame that selected the mode was
\* not repeated.
C7_Witness ==
    /\ pc = "drop"
    /\ plot.mode = "Derivative" /\ ~plot.reset
    /\ click.op # "SetMode"
    /\ ~should_reset_plot

\* C8: a successful ingestion, through either path, adds one layer at index
\* solutions_count: the count grows by one, the file's samples and name are
\* at that index, the flag read there is true, and the layers before it
\* keep their samples, names and flags.
C8_IngestAppends ==
    [][(Attempt /\ outcome' = "Ok") =>
         LET n == solutions_count
             contents == Contents(TextOf(AttemptPath))
         IN  /\ solutions_count' = n + 1
             /\ Len(points') = n + 1 /\ Len(layer_names') = n + 1
             /\ Len(is_visible') >= n + 1
             /\ points'[n + 1] = Samples(contents)
             /\ layer_names'[n + 1] =
                  LayerName(AttemptPath, He(contents), Gamma(contents))
             /\ is_visible'[n + 1] = TRUE
             /\ \A sol \in 0..(n - 1) : Layer(sol)' = Layer(sol)]_vars

\* A dropped file has been ingested after an existing, hidden layer.
C8_Witness ==
    /\ pc = "drop" /\ outcome = "Ok" /\ file_idx > 1
    /\ solutions_count = 2
    /\ is_visible[1] = FALSE /\ is_visible[2] = TRUE
    /\ Len(points[2]) > 0

\* C9: removing layer i takes one off the count, leaves the layers below i
\* in place and moves each layer j > i to j - 1 with its samples, name and
\* flag; the render pass of that frame draws each survivor with the colour
\* of its new position.
C9_RemoveShifts ==
    [][/\ (pc = "list" /\ ~panicked /\ click'.op = "Remove") =>
            LET i == click'.arg IN
            /\ ~panicked'
            /\ solutions_count' = solutions_count - 1
            /\ Len(points') = Len(points) - 1
            /\ Len(layer_names') = Len(layer_names) - 1
            /\ Len(is_visible') = Len(is_visible) - 1
            /\ \A j \in 0..(i - 1) : Layer(j)' = Layer(j)
            /\ \A j \in (i + 1)..(solutions_count - 1) : Layer(j - 1)' = Layer(j)
       /\ (RenderPass /\ click.op = "Remove") =>
            \A k \in 1..Len(plot'.lines) :
                /\ plot'.lines[k].name = layer_names[plot'.lines[k].sol + 1]
                /\ plot'.lines[k].color = plot'.lines[k].sol % 11
                /\ k > 1 => plot'.lines[k - 1].sol < plot'.lines[k].sol]_vars

\* The middle one of three layers has been removed: one survivor stays at
\* index 0, the other has moved from index 2 to index 1, and the render
\* pass of that frame has drawn both, in that order.
C9_Witness ==
    /\ pc = "drop" /\ ~panicked
    /\ click = [op |-> "Remove", arg |-> 1]
    /\ solutions_count = 2
    /\ layer_names[1] # layer_names[2]
    /\ Len(plot.lines) = 2

\* The same removal with the moved layer hidden: its flag has moved with it
\* and the render pass has drawn the other survivor only.
C9_WitnessHidden ==
    /\ pc = "drop" /\ ~panicked
    /\ click = [op |-> "Remove", arg |-> 1]
    /\ solutions_count = 2
    /\ is_visible[1] = TRUE /\ is_visible[2] = FALSE
    /\ layer_names[1] # layer_names[2]
    /\ Len(plot.lines) = 1

\* C10: right after Clear the layer count is 0 and points, is_visible and
\* layer_names are empty.
C10_ClearEmpties ==
    [][(pc = "menu" /\ ~panicked /\ click'.op = "Clear") =>
         /\ solutions_count' = 0
         /\ points' = <<>>
         /\ is_visible' = <<>>
         /\ layer_names' = <<>>]_vars

\* Clear has run in a frame whose store held a dropped layer: the previous
\* render pass drew it.
C10_Witness ==
    /\ pc = "mode"
    /\ click.op = "Clear"
    /\ solutions_count = 0 /\ is_visible = <<>>
    /\ Len(plot.lines) > 0
    /\ dropped_files # <<>>

\* A header line, a parameter line of at least 21 tokens, well-formed data
\* lines and a terminating newline.
TerminatedWellFormed(text) ==
    /\ WellFormed(text)
    /\ Len(SplitLines(text)) >= 3
    /\ SplitLines(text)[Len(SplitLines(text))] = <<>>

\* C11: ingesting a well-formed, newline-terminated file with k data lines
\* gives a layer of exactly k samples, one per data line in file order; the
\* header line, the parameter line and the empty last element give none.
C11_OneSamplePerDataLine ==
    [][(Attempt /\ outcome' # "Unreadable"
          /\ TerminatedWellFormed(TextOf(AttemptPath))) =>
         LET data == DataLines(TextOf(AttemptPath)) IN
         /\ outcome' = "Ok"
         /\ points'[solutions_count + 1] = [k \in 1..Len(data) |-> Sample(data[k])]]_vars

\* C12: every index the layer list and the render pass enumerate,
\* 0..solutions_count-1, is inside points, is_visible and layer_names, and
\* neither of the two loops ever panics on an indexed access.
C12_IndicesInBounds ==
    /\ solutions_count <= Len(points)
    /\ solutions_count <= Len(is_visible)
    /\ solutions_count <= Len(layer_names)
    /\ panicked => pc \in {"pick", "drop"}

\* The render pass of a frame that removed a layer has drawn the survivor,
\* in a store where is_visible is longer than the layer count.
C12_Witness ==
    /\ pc = "drop" /\ ~panicked
    /\ click.op = "Remove"
    /\ solutions_count = 1
    /\ Len(plot.lines) = 1
    /\ Len(is_visible) > solutions_count

\* The layers a render pass has drawn.
DrawnSols(p) == {p.lines[k].sol : k \in 1..Len(p.lines)}

\* C13: a toggle of layer i negates is_visible[i] and changes no other flag,
\* no samples, no name, not the count, the mode or the reset flag; negating
\* the same flag again gives back the original; a render pass draws exactly
\* the layers whose flag is true.
C13_ToggleFlipsOne ==
    [][/\ (pc = "list" /\ ~panicked /\ click'.op = "Toggle") =>
            LET i == click'.arg IN
            /\ ~panicked'
            /\ is_visible'[i + 1] = ~is_visible[i + 1]
            /\ Len(is_visible') = Len(is_visible)
            /\ \A j \in 1..Len(is_visible) : j # i + 1 => is_visible'[j] = is_visible[j]
            /\ [is_visible' EXCEPT ![i + 1] = ~@] = is_visible
            /\ UNCHANGED <<points, layer_names, solutions_count, line_mode,
                           should_reset_plot>>
       /\ RenderPass =>
            DrawnSols(plot') = {sol \in 0..(solutions_count - 1) : is_visible[sol + 1]}]_vars

\* A layer that was hidden has been shown again and the render pass of that
\* frame has drawn both layers.
C13_Witness ==
    /\ pc = "drop"
    /\ click = [op |-> "Toggle", arg |-> 0]
    /\ solutions_count = 2
    /\ is_visible[1] /\ is_visible[2]
    /\ Len(plot.lines) = 2
    /\ plot.mode = "Derivative"

\* C14: in both render branches every line drawn holds (x, y) of each
\* sample of its layer in Normal mode and (x, y') in Derivative mode, in
\* the order and number of the stored samples.
C14_ProjectionExact ==
    [][RenderPass =>
         \A k \in 1..Len(plot'.lines) :
            LET samples == points[plot'.lines[k].sol + 1]
                pts == plot'.lines[k].pts
            IN  /\ Len(pts) = Len(samples)
                /\ \A i \in 1..Len(samples) :
                     /\ pts[i][1] = samples[i][1]
                     /\ line_mode = "Normal" => pts[i][2] = samples[i][2]
                     /\ line_mode = "Derivative" => pts[i][2] = samples[i][3]]_vars

\* The reset branch has drawn a layer in Derivative mode whose y' differs
\* from its y.
C14_Witness ==
    /\ pc = "drop"
    /\ plot.reset /\ plot.mode = "Derivative"
    /\ Len(plot.lines) > 0
    /\ Len(plot.lines[1].pts) = 2
    /\ plot.lines[1].pts[2] = <<100, 5>>

\* C15: a successful ingestion through the drag-and-drop path leaves the
\* store that the file-picker path leaves for the same file from the same
\* store, and conversely.
C15_PathsEquivalent ==
    [][(Attempt /\ outcome' = "Ok") => store' = PickedStore(AttemptPath)]_vars

\* C16: the layer count grows only in a successful ingestion step, by one;
\* it shrinks only in a remove step, by one, or a Clear step, to zero;
\* set-mode, toggle and render steps leave the count, the samples and the
\* names alone.
C16_LayerLifecycle ==
    [][/\ solutions_count' > solutions_count =>
            (Attempt /\ outcome' = "Ok" /\ solutions_count' = solutions_count + 1)
       /\ solutions_count' < solutions_count =>
            \/ /\ pc = "list" /\ click'.op = "Remove"
               /\ solutions_count' = solutions_count - 1
            \/ /\ pc = "menu" /\ click'.op = "Clear"
               /\ solutions_count' = 0
       /\ (\/ pc = "mode"
           \/ pc = "render"
           \/ (pc = "list" /\ click'.op = "Toggle"))
            => UNCHANGED <<solutions_count, points, layer_names>>]_vars

\* A dropped batch of two files has been ingested, one layer per file,
\* onto a store emptied by Clear in the same frame.
C16_Witness ==
    /\ pc = "drop" /\ ~panicked
    /\ file_idx = 3
    /\ click.op = "Clear"
    /\ solutions_count = 2
    /\ Len(plot.lines) = 0

\* The frame has run to its end: the dropped-file loop is over and only
\* dropped_files.clear() and the collection of new drops remain.
FrameEnd == pc = "drop" /\ ~panicked /\ file_idx > Len(dropped_files)

\* C17: at the end of every frame picked_path is None, whether the read of
\* the picked file succeeded or failed, so a selection is attempted in one
\* frame only and adds no layer in a later frame.
C17_PickResolvedInFrame ==
    /\ [](FrameEnd => picked_path = None)
    /\ [][(PickAttempt /\ outcome' = "Ok") => click.op = "Open"]_vars

\* C18: every dropped batch is ingested exactly once, in the frame after the
\* drop and after that frame's render pass: each loop step moves on to the
\* next file, dropped_files is replaced only when every file of it has been
\* attempted, and the run never stops while a dropped file is still waiting.
C18_BatchIngestedOnce ==
    /\ [][/\ (DropAttempt /\ ~panicked') => file_idx' = file_idx + 1
          /\ dropped_files' # dropped_files => (FrameEnd /\ pc' = "list")]_vars
    /\ [](panicked =>
            \/ dropped_files = <<>>
            \/ pc = "drop" /\ file_idx >= Len(dropped_files))

\* C19: when Clear is clicked in a frame (so no file is opened in it), the
\* layer count is 0 at the end of that frame.
C19_ClearedAtFrameEnd ==
    (FrameEnd /\ click.op = "Clear") => solutions_count = 0

====
